---- MODULE Spec2Model ----
(***************************************************************************)
(* State-machine model of RecorderApp (ClickRec_60.py): the capture        *)
(* source (CamGear), the preview loop, the record loop, the encoder        *)
(* writer (WriteGear) and the Tk handlers that start and stop them.        *)
(*                                                                         *)
(* The Tk handlers run on the UI thread, one at a time, so each is one     *)
(* action.  preview_loop and record_loop run on their own threads and      *)
(* interleave with the handlers and with each other, so each statement of  *)
(* theirs that reads or writes shared state is one action.  A frame is     *)
(* modelled by its identity: the position at which it left the capture     *)
(* queue.                                                                  *)
(***************************************************************************)
EXTENDS Integers, Sequences, FiniteSets

\* ------------------------------------------------------------ bounds
MaxStreams == 2
MaxSessions == 2
MaxDur == 1
MaxFrames == 3
MaxCaps == 2
MaxCalls == 5
MaxLines == 2
MaxDim == 1
MaxToggles == 2
MaxSide == 8
MaxClock == 3
TicksPerSecond == 2

VARIABLES
  recording,     \* self.recording
  previewing,    \* self.previewing
  stream,        \* self.stream: 0 is None, else the id of a CamGear object
  writer,        \* self.writer: 0 is None, else the id of a WriteGear object
  remaining,     \* self.remaining: << >> while the attribute is unset, else <<n>>
  start_btn,     \* start_btn is in state NORMAL
  stop_btn,      \* stop_btn is in state NORMAL
  preview_btn,   \* preview_btn is in state NORMAL
  timers,        \* pending self.after(1000, self.update_timer) callbacks
  nStreams,      \* CamGear objects constructed so far
  openStreams,   \* CamGear objects started and not yet stopped
  ended,         \* the current stream's source is exhausted: read() returns None
  nPulled,       \* frames dequeued from the capture queue so far
  nWriters,      \* WriteGear objects constructed so far
  closes,        \* closes[w]: calls of close() on WriteGear object w
  reports,       \* "recording stopped" dialogs shown (messagebox.showinfo)
  pv,            \* pv[i]: the preview_loop thread started with stream i
  rc,            \* rc[w]: the record_loop thread started with writer w
  tracked,       \* how many frames this run tells apart: frames 1..tracked
  pulls,         \* history: the frames read and by whom
  filtered,      \* history: filtered[f]: times the filter stage ran on frame f
  rendered,      \* history: the frames drawn on the preview canvas, in order
  written,       \* history: the frames passed to writer.write, in order
  stops,         \* history: stops[i]: calls of stop() on CamGear object i
  resolution_var,\* self.resolution_var: the capability selected in the combobox
  opened,        \* opened[i]: the capability CamGear object i was opened with
  declared,      \* declared[w]: the capability whose fps WriteGear object w got
  codec,         \* the calls of select_codec in this process and their probes
  now,           \* the wall clock, in ticks of 1/TicksPerSecond second
  output,        \* output[w]: the output path WriteGear object w was given
  call,          \* a function called on its own: its inputs, its steps, its result
  last           \* history: the handler that ran last and how it went

vars == <<recording, previewing, stream, writer, remaining, start_btn, stop_btn,
          preview_btn, timers, nStreams, openStreams, ended, nPulled, nWriters,
          closes, reports, pv, rc, tracked, pulls, filtered, rendered, written,
          stops, resolution_var, opened, declared, codec, now, output, call,
          last>>

\* every variable but last
progVars == <<recording, previewing, stream, writer, remaining, start_btn,
              stop_btn, preview_btn, timers, nStreams, openStreams, ended,
              nPulled, nWriters, closes, reports, pv, rc, tracked, pulls,
              filtered, rendered, written, stops, resolution_var, opened,
              declared, codec, now, output, call>>

\* every variable but call
restVars == <<recording, previewing, stream, writer, remaining, start_btn,
              stop_btn, preview_btn, timers, nStreams, openStreams, ended,
              nPulled, nWriters, closes, reports, pv, rc, tracked, pulls,
              filtered, rendered, written, stops, resolution_var, opened,
              declared, codec, now, output, last>>

appVars == <<recording, previewing, stream, writer, remaining, start_btn,
             stop_btn, preview_btn, timers, nStreams, openStreams, ended,
             nWriters, closes, reports, stops, resolution_var, opened,
             declared, codec, now, output, call>>
sideVars == <<resolution_var, opened, declared, codec, now, output, call>>
histVars == <<tracked, pulls, filtered, rendered, written>>

Streams == 1..MaxStreams
Caps == 1..MaxCaps
Sessions == 1..MaxSessions
\* Frames 1..tracked are told apart; every later frame is frame tracked + 1.
Tracked == 1..tracked

Min(a, b) == IF a < b THEN a ELSE b

\* ------------------------------------------------------------ __init__
InitApp ==
  /\ recording = FALSE
  /\ previewing = FALSE
  /\ stream = 0
  /\ writer = 0
  /\ remaining = << >>
  /\ start_btn = TRUE
  /\ stop_btn = FALSE
  /\ preview_btn = TRUE
  /\ timers = 0
  /\ nStreams = 0
  /\ openStreams = {}
  /\ ended = FALSE
  /\ nPulled = 0
  /\ nWriters = 0
  /\ closes = [w \in Sessions |-> 0]
  /\ reports = 0
  /\ pv = [i \in Streams |-> [pc |-> "idle", frame |-> 0, both |-> FALSE]]
  /\ rc = [w \in Sessions |-> [pc |-> "idle", frame |-> 0, left |-> 0]]
  /\ pulls = {}
  /\ filtered = [f \in 1..(MaxFrames - 1) |-> 0]
  /\ rendered = << >>
  /\ written = << >>
  /\ stops = [i \in Streams |-> 0]
  /\ resolution_var = 1
  /\ opened = [i \in Streams |-> 0]
  /\ declared = [w \in Sessions |-> 0]
  /\ now = 0
  /\ output = [w \in Sessions |-> << >>]

\* self.CODEC = self.select_codec(): one call, on a machine whose ffmpeg lists
\* no h264_qsv encoder, so the smoke test has not run
Constructed ==
  codec = [returned |-> <<"libx264">>, listings |-> 1, smokes |-> 0]

\* The handler calls are not kept.
Unwatched == <<"off">>

\* No function is called on its own.
NoCall == [fn |-> "none"]

\* The process before any RecorderApp is constructed: select_codec has not
\* been called.
InitProcess ==
  /\ InitApp /\ tracked = 0 /\ last = Unwatched /\ call = NoCall
  /\ codec = [returned |-> << >>, listings |-> 0, smokes |-> 0]

\* No frame is told apart from the next.
Init == InitApp /\ Constructed /\ tracked = 0 /\ last = Unwatched /\ call = NoCall

\* The first MaxFrames - 1 frames are told apart.
InitObserved ==
  InitApp /\ Constructed /\ tracked = MaxFrames - 1 /\ last = Unwatched /\ call = NoCall

\* The last handler call is kept.
InitWatched ==
  InitApp /\ Constructed /\ tracked = 0 /\ last = <<"none">> /\ call = NoCall

\* The application idle, and one function about to be called on input c.
InitCall(c) == InitApp /\ Constructed /\ tracked = 0 /\ last = Unwatched /\ call = c

Note(what) == IF last = Unwatched THEN last ELSE what

\* ------------------------------------------------------------ capture backend
\* CamGear is started with THREADED_QUEUE_MODE, so read() dequeues: the frame
\* returned when n frames have left the queue is the next one, and it is gone
\* from the queue afterwards.
FrameAt(n) == Min(n + 1, tracked + 1)

\* read() that leaves the frame in place (THREADED_QUEUE_MODE off)
AfterReadPeek(n) == n

AfterRead(n) == Min(n + 1, tracked)

\* ------------------------------------------------------------ start_preview
\* What start_preview can come to: "ok", the source is opened; "notfound", the
\* selected device is not in the list and the function returns; "raise", an
\* exception leaves it (fps is unbound after an unparsable resolution text, or
\* CamGear raises) before self.stream is assigned.
Outcomes == {"ok", "notfound", "raise"}

PreviewState ==
  [previewing |-> previewing, stream |-> stream, nStreams |-> nStreams,
   openStreams |-> openStreams, ended |-> ended, pv |-> pv, stops |-> stops,
   opened |-> opened]

\* self.stream = CamGear(...).start(); self.previewing = True; and the
\* preview_loop thread is started
Opened ==
  [previewing |-> TRUE,
   stream |-> nStreams + 1,
   nStreams |-> nStreams + 1,
   openStreams |-> openStreams \cup {nStreams + 1},
   ended |-> FALSE,
   pv |-> [pv EXCEPT ![nStreams + 1] =
             [pc |-> "check", frame |-> 0, both |-> FALSE]],
   stops |-> stops,
   \* cam_options: width, height and fps of the selected resolution text
   opened |-> [opened EXCEPT ![nStreams + 1] = resolution_var]]

\* self.previewing = True ahead of the device lookup
start_previewFlagFirst(outcome) ==
  IF outcome = "ok" THEN Opened ELSE [PreviewState EXCEPT !.previewing = TRUE]

start_preview(outcome) == IF outcome = "ok" THEN Opened ELSE PreviewState

\* ------------------------------------------------------------ stop_preview
\* self.stream = None without self.stream.stop()
StreamsAfterStopLeak == openStreams

\* if self.stream: self.stream.stop()
StreamsAfterStop == IF stream # 0 THEN openStreams \ {stream} ELSE openStreams

\* stops[i] counts 0, 1, and 2 for twice or more.
StopsAfterStop ==
  IF stream # 0 THEN [stops EXCEPT ![stream] = Min(@ + 1, 2)] ELSE stops

\* self.stream is left as it is after self.stream.stop()
StreamAfterStopKept == stream

\* self.stream = None
StreamAfterStop == 0

stop_preview ==
  [previewing |-> FALSE, stream |-> StreamAfterStop, nStreams |-> nStreams,
   openStreams |-> StreamsAfterStop, ended |-> FALSE, pv |-> pv,
   stops |-> StopsAfterStop, opened |-> opened]

SetPreview(p) ==
  /\ previewing' = p.previewing
  /\ stream' = p.stream
  /\ nStreams' = p.nStreams
  /\ openStreams' = p.openStreams
  /\ ended' = p.ended
  /\ pv' = p.pv
  /\ stops' = p.stops
  /\ opened' = p.opened

\* ------------------------------------------------------------ toggle_preview
TogglePreview(outcome) ==
  /\ preview_btn
  /\ outcome = "ok" => nStreams < MaxStreams
  /\ SetPreview(IF previewing THEN stop_preview ELSE start_preview(outcome))
  /\ UNCHANGED <<recording, writer, remaining, start_btn, stop_btn, preview_btn,
                 timers, nPulled, nWriters, closes, reports, rc,
                 resolution_var, declared, codec, now, output, call>>
  /\ UNCHANGED histVars
  /\ last' = Note(IF previewing THEN <<"stop_preview", previewing>>
                                 ELSE <<"start_preview", outcome>>)

\* stop_preview called as it stands, whatever the state (toggle_preview and
\* on_close call it only while previewing)
StopPreview ==
  /\ SetPreview(stop_preview)
  /\ UNCHANGED <<recording, writer, remaining, start_btn, stop_btn, preview_btn,
                 timers, nPulled, nWriters, closes, reports, rc,
                 resolution_var, declared, codec, now, output, call>>
  /\ UNCHANGED histVars
  /\ last' = Note(<<"stop_preview", previewing>>)

\* ------------------------------------------------------------ update_timer
TimerRuns == recording /\ remaining # << >> /\ remaining[1] >= 0

UpdateTimer ==
  /\ timers > 0
  /\ IF TimerRuns
     THEN /\ remaining' = <<remaining[1] - 1>>
          /\ timers' = timers
     ELSE /\ remaining' = remaining
          /\ timers' = timers - 1
  /\ UNCHANGED <<recording, previewing, stream, writer, start_btn, stop_btn,
                 preview_btn, nStreams, openStreams, ended, nPulled, nWriters,
                 closes, reports, pv, rc, stops, last>>
  /\ UNCHANGED sideVars
  /\ UNCHANGED histVars

\* ------------------------------------------------------------ start_record
\* if not self.previewing: self.start_preview()
NeedsPreview == ~previewing

\* except Exception: pass, and the handler goes on to self.recording = True
EncoderOpensIgnored(encOK) == TRUE

\* try: self.writer = WriteGear(...) except Exception: ...; return
EncoderOpens(encOK) == encOK

\* now = datetime.datetime.now().strftime("%Y%m%d_%H%M%S"): the clock cut down
\* to the second
strftime(t) == t \div TicksPerSecond

EXT == ".mp4"

\* target_dir = os.path.abspath(self.save_dir_var.get())
\* output_path = os.path.join(target_dir, f"{now}{EXT}")
\* The directory is the one the combobox holds; nothing here changes it.
output_path(t) == <<"target_dir", strftime(t), EXT>>

\* What start_record reads before it opens anything: w, h and f from the
\* resolution text and self.fps, and the duration entry; readable is whether
\* self.duration.get() returns a number at all (it raises on text).
Parameters ==
  [w : 0..1, h : 0..1, f : 0..1, readable : BOOLEAN, dur : (-1)..MaxDur]

\* if dur <= 0: raise ValueError, the sizes are not looked at
ParametersValidNoSize(p) == p.readable /\ p.dur > 0

\* if w <= 0 or h <= 0 or f <= 0 or dur <= 0 or not out.lower().endswith(EXT):
\* raise ValueError; out is built with EXT at its end.  An exception of
\* self.duration.get() ends in the same except clause.
ParametersValid(p) ==
  p.readable /\ p.w > 0 /\ p.h > 0 /\ p.f > 0 /\ p.dur > 0

start_record(p, outcome, encOK) ==
  /\ start_btn
  /\ (outcome = "ok" /\ NeedsPreview) => nStreams < MaxStreams
  /\ encOK => nWriters < MaxSessions
  /\ IF ~ParametersValid(p) \/ (NeedsPreview /\ outcome = "raise")
     THEN \* the parameter check returns, or start_preview raises
          /\ UNCHANGED progVars
          /\ last' = Note(<<"start_record",
                            IF ~ParametersValid(p) THEN "rejected" ELSE "raise", p>>)
     ELSE /\ SetPreview(IF NeedsPreview THEN start_preview(outcome) ELSE PreviewState)
          /\ IF ~EncoderOpens(encOK)
             THEN \* WriteGear raises: the handler reports it and returns
                  /\ UNCHANGED <<recording, writer, remaining, start_btn, stop_btn,
                                 timers, nWriters, rc, declared, output>>
                  /\ last' = Note(<<"start_record", "encoder", p>>)
             ELSE /\ last' = Note(<<"start_record", "started", p>>)
                  /\ writer' = nWriters + 1
                  \* "-input_framerate": f, the fps of the selected resolution text
                  /\ declared' = [declared EXCEPT ![nWriters + 1] = resolution_var]
                  \* WriteGear(output=out, ...)
                  /\ output' = [output EXCEPT ![nWriters + 1] = output_path(now)]
                  /\ nWriters' = nWriters + 1
                  /\ recording' = TRUE
                  \* self.remaining = dur, then update_timer() at once
                  /\ remaining' = <<p.dur - 1>>
                  /\ timers' = timers + 1
                  /\ start_btn' = FALSE
                  /\ stop_btn' = TRUE
                  /\ rc' = [rc EXCEPT ![nWriters + 1] =
                              [pc |-> "check", frame |-> 0, left |-> p.dur]]
          /\ UNCHANGED <<preview_btn, nPulled, closes, reports, resolution_var,
                         codec, now, call>>
          /\ UNCHANGED histVars

\* start_record with a resolution text of a positive size and fps, and the
\* duration entry holding the number dur
StartRecord(dur, outcome, encOK) ==
  start_record([w |-> 1, h |-> 1, f |-> 1, readable |-> TRUE, dur |-> dur],
               outcome, encOK)

\* start_record with any parameters
StartRecordWith(p, outcome, encOK) == start_record(p, outcome, encOK)

\* The encoder options of start_record, for the codec in self.CODEC and the
\* value of the quality slider (from_=0, to=51).
QualityTo == 51

BaseOptions == {"-vcodec", "-preset", "-pix_fmt", "-movflags", "-input_framerate"}
QualityNames == {"-crf", "-global_quality"}

\* "-crf": quality and "-global_quality": quality both in the dict literal
QualityOptionBoth(c) == QualityNames

\* if self.CODEC == "libx264": ... elif self.CODEC == "h264_qsv": ... else: warn
QualityOption(c) ==
  IF c = "libx264" THEN {"-crf"}
  ELSE IF c = "h264_qsv" THEN {"-global_quality"}
  ELSE {}

options(c, quality) ==
  [n \in BaseOptions \cup QualityOption(c) |->
     IF n \in QualityNames THEN <<"str", quality>>
     ELSE IF n = "-vcodec" THEN <<c>>
     ELSE <<n>>]

BuildOptions ==
  /\ call.fn = "options"
  /\ ~call.done
  /\ call' = [call EXCEPT !.done = TRUE,
                          !.out = options(call.env.codec, call.env.quality)]
  /\ UNCHANGED restVars

\* ------------------------------------------------------------ stop_record
\* closes[w] counts 0, 1, and 2 for twice or more.
\* if self.writer: self.writer.close()
CloseWriter ==
  IF writer # 0 THEN [closes EXCEPT ![writer] = Min(@ + 1, 2)] ELSE closes

\* reports counts up to one more than there can be sessions.
\* messagebox.showinfo("情報", "録画を停止しました。")
Reported == Min(reports + 1, MaxSessions + 1)

StopRecord ==
  /\ stop_btn
  /\ recording' = FALSE
  /\ start_btn' = TRUE
  /\ stop_btn' = FALSE
  /\ closes' = CloseWriter
  /\ reports' = Reported
  /\ UNCHANGED <<previewing, stream, writer, remaining, preview_btn, timers,
                 nStreams, openStreams, ended, nPulled, nWriters, pv, rc, stops>>
  /\ UNCHANGED sideVars
  /\ UNCHANGED histVars
  /\ last' = Note(<<"stop_record">>)

\* ------------------------------------------------------------ on_close
\* if self.recording: self.stop_record()
\* if self.previewing: self.stop_preview()
\* self.destroy()
OnClose ==
  /\ recording' = FALSE
  /\ start_btn' = IF recording THEN TRUE ELSE start_btn
  /\ stop_btn' = IF recording THEN FALSE ELSE stop_btn
  /\ closes' = IF recording THEN CloseWriter ELSE closes
  /\ reports' = IF recording THEN Reported ELSE reports
  /\ SetPreview(IF previewing THEN stop_preview ELSE PreviewState)
  /\ UNCHANGED <<writer, remaining, preview_btn, timers, nPulled, nWriters, rc,
                 resolution_var, declared, codec, now, output, call>>
  /\ UNCHANGED histVars
  /\ last' = Note(<<"on_close">>)

\* ------------------------------------------------------------ update_resolution_list
UpdateResolutionList(hasRes) ==
  /\ start_btn' = hasRes
  /\ preview_btn' = hasRes
  /\ UNCHANGED <<recording, previewing, stream, writer, remaining, stop_btn,
                 timers, nStreams, openStreams, ended, nPulled, nWriters, closes,
                 reports, pv, rc, stops, opened, declared, codec, now, output,
                 call>>
  \* if resolutions: self.resolution_menu.current(0)
  /\ resolution_var' = IF hasRes THEN 1 ELSE resolution_var
  /\ UNCHANGED histVars
  /\ last' = Note(<<"update_resolution_list", hasRes>>)

\* ------------------------------------------------------------ select_codec
\* listed: ffmpeg -encoders ran and names h264_qsv; smoke: the test encode ran
\* and left a file that is not empty.
select_codec(listed, smoke) ==
  IF ~listed THEN "libx264" ELSE IF smoke THEN "h264_qsv" ELSE "libx264"

\* One call of select_codec: the encoder listing always runs, the smoke test
\* runs when the listing names h264_qsv.
SelectCodec(listed, smoke) ==
  /\ Len(codec.returned) < MaxCalls
  /\ codec' = [returned |-> Append(codec.returned, select_codec(listed, smoke)),
               listings |-> codec.listings + 1,
               smokes |-> codec.smokes + (IF listed THEN 1 ELSE 0)]
  /\ UNCHANGED <<recording, previewing, stream, writer, remaining, start_btn,
                 stop_btn, preview_btn, timers, nStreams, openStreams, ended,
                 nPulled, nWriters, closes, reports, pv, rc, stops,
                 resolution_var, opened, declared, now, output, call, last>>
  /\ UNCHANGED histVars

\* select_codec step by step, on one environment e: where ffmpeg is (path), how
\* the encoder listing ends (listing), how the test encode ends (smoke), what it
\* leaves behind (file), and how removing that file ends (remove).
preferred_codec == "h264_qsv"
fallback_codec == "libx264"

CodecEnvs ==
  [path : {"found", "missing"},
   listing : {"raise", "nonzero", "absent", "present"},
   smoke : {"raise", "ok"},
   file : {"missing", "empty", "nonempty"},
   remove : {"ok", "raise"}]

\* no test of the encoder list for the preferred name
ListedUnchecked(e) == e.path = "found" /\ e.listing \in {"absent", "present"}

\* The first try block ends without an exception: subprocess.run found ffmpeg
\* and exited 0, and a line of its output names the preferred codec.
Listed(e) == e.path = "found" /\ e.listing = "present"

\* The second try block ends without an exception: the test encode exited 0,
\* its output exists and is not empty, and os.remove succeeded.
SmokePassed(e) ==
  e.smoke = "ok" /\ e.file = "nonempty" /\ e.remove = "ok"

\* no except clause: the exception leaves select_codec
OnExceptionReraise == "raise"

\* except Exception as e: ...; return fallback_codec
OnException == fallback_codec

CodecList ==
  /\ call.fn = "select_codec"
  /\ call.ran = << >>
  /\ call' = [call EXCEPT !.ran = <<"list">>,
                          !.out = IF Listed(call.env) THEN "none" ELSE OnException]
  /\ UNCHANGED restVars

CodecSmoke ==
  /\ call.fn = "select_codec"
  /\ call.ran = <<"list">>
  /\ call.out = "none"
  /\ call' = [call EXCEPT !.ran = <<"list", "smoke">>,
                          !.out = IF SmokePassed(call.env) THEN preferred_codec
                                                          ELSE OnException]
  /\ UNCHANGED restVars

\* ------------------------------------------------------------ detect_devices
\* A line of ffmpeg -list_devices: whether it holds "(video)", whether it holds
\* a double quote, and the text after its first double quote.
DeviceLines == [video : BOOLEAN, quoted : BOOLEAN, name : {"camA", "camB"}]

SeqsUpTo(S, n) == UNION {[1..k -> S] : k \in 0..n}

Placeholder == <<"Default Camera">>

\* return devices, whatever it holds
OrPlaceholderNever(devices) == devices

\* if not devices: devices = ["Default Camera"]
OrPlaceholder(devices) == IF devices = << >> THEN Placeholder ELSE devices

\* ok: subprocess.run found ffmpeg and it exited 0 (check=True)
detect_devices(ok, lines) ==
  IF ~ok
  THEN Placeholder
  ELSE LET named == SelectSeq(lines, LAMBDA l : l.video /\ l.quoted)
       IN OrPlaceholder([i \in 1..Len(named) |-> named[i].name])

DetectDevices ==
  /\ call.fn = "detect_devices"
  /\ ~call.done
  /\ call' = [call EXCEPT !.done = TRUE,
                          !.out = detect_devices(call.env.ok, call.env.lines)]
  /\ UNCHANGED restVars

\* ------------------------------------------------------------ get_supported_resolutions
\* A line of ffmpeg -list_options: whether it holds "vcodec=mjpeg", whether it
\* holds "fps=", and what the pattern max s=(\d+)x(\d+)\s+fps=(\d+) finds in
\* it: << >> for no match, else the three numbers.  A match holds "fps=".
Sizes == (0..MaxDim) \X (0..MaxDim) \X (0..MaxDim)

OptionLines ==
  {l \in [mjpeg : BOOLEAN, fps : BOOLEAN, max : {<< >>} \cup Sizes] :
     l.max # << >> => l.fps}

\* the exception leaves get_supported_resolutions
UnsupportedRaises == [raised |-> TRUE, value |-> << >>]

\* except Exception as e: ...; return []
Unsupported == [raised |-> FALSE, value |-> << >>]

Contributes(l) == l.mjpeg /\ l.fps /\ l.max # << >>

\* inRange: device_index < len(devices); ran: subprocess.run did not raise
get_supported_resolutions(inRange, ran, lines) ==
  IF ~inRange THEN [raised |-> FALSE, value |-> << >>]
  ELSE IF ~ran THEN Unsupported
  ELSE IF \A i \in 1..Len(lines) : ~lines[i].mjpeg THEN Unsupported
  ELSE LET found == SelectSeq(lines, Contributes)
       IN [raised |-> FALSE, value |-> [i \in 1..Len(found) |-> found[i].max]]

GetSupportedResolutions ==
  /\ call.fn = "get_supported_resolutions"
  /\ ~call.done
  /\ call' = [call EXCEPT !.done = TRUE,
                          !.out = get_supported_resolutions(call.env.inRange,
                                                            call.env.ran,
                                                            call.env.lines)]
  /\ UNCHANGED restVars

\* ------------------------------------------------------------ preview canvas
PREVIEW_WIDTH == 1280

\* the quotient rounded to the nearest integer
canvas_heightRounded(w, h) == (2 * PREVIEW_WIDTH * h + w) \div (2 * w)

\* aspect_ratio = w / h; canvas_height = int(canvas_width / aspect_ratio).
\* int() drops the fraction of a positive quotient.  The two divisions are
\* done in double precision; for the sizes up to MaxSide + 1 the result is the
\* floor of the exact quotient.
canvas_height(w, h) == (PREVIEW_WIDTH * h) \div w

\* self.preview_canvas.config(width=canvas_width, height=canvas_height)
ConfigCanvas ==
  /\ call.fn = "canvas"
  /\ ~call.done
  /\ call' = [call EXCEPT !.done = TRUE,
                          !.width = PREVIEW_WIDTH,
                          !.height = canvas_height(call.env.w, call.env.h)]
  /\ UNCHANGED restVars

\* ------------------------------------------------------------ filters
\* A frame is the raw picture it was made from, the stages that were applied
\* to it, in order, and the object that holds it (a NumPy array or a UMat).
\* The arithmetic of a stage is not modelled: a stage maps equal frames to
\* equal frames and its application is recorded.
Flags == {"vascular", "gray", "clahe_color", "clahe_l"}

Raws == {"f1", "f2"}

\* image = cv2.UMat(image): a new object with the same pixels
UMat(image) == [image EXCEPT !.holder = "UMat"]

Stage(name, image) == [image EXCEPT !.stages = Append(@, name)]

\* gray first
StageOrderGrayFirst == <<"gray", "vascular", "clahe_color", "clahe_l">>

\* if vascular: ... if clahe_color: ... if clahe_l: ... if gray: ...
StageOrder == <<"vascular", "clahe_color", "clahe_l", "gray">>

RECURSIVE Chain(_, _, _)
Chain(image, flags, i) ==
  IF i > Len(StageOrder) THEN image
  ELSE Chain(IF flags[StageOrder[i]] THEN Stage(StageOrder[i], image) ELSE image,
             flags, i + 1)

\* return image
ReturnedAsIs(image) == image

\* return image.get() if isinstance(image, cv2.UMat) else image
Returned(image) ==
  IF image.holder = "UMat" THEN [image EXCEPT !.holder = "ndarray"] ELSE image

filters(image, flags) == Returned(Chain(UMat(image), flags, 1))

\* A Checkbutton flips its BooleanVar; toggles keeps the order of the clicks.
ToggleFlag(f) ==
  /\ call.fn = "filters"
  /\ call.runs = 0
  /\ Len(call.toggles) < MaxToggles
  /\ call' = [call EXCEPT !.flags[f] = ~@, !.toggles = Append(@, f)]
  /\ UNCHANGED restVars

\* frame = filters(frame, vascular=self.filter.get(), ...): the first run
\* filters the frame that was read, the second one the frame the first
\* returned.  No statement of filters writes into the array it was given.
Filters ==
  /\ call.fn = "filters"
  /\ call.runs < 2
  /\ call' = [call EXCEPT !.runs = @ + 1,
                          !.given = IF call.runs = 0 THEN call.image ELSE call.out,
                          !.out = filters(IF call.runs = 0 THEN call.image
                                                           ELSE call.out, call.flags)]
  /\ UNCHANGED restVars

\* The call of filters in preview_loop and record_loop, argument by argument:
\* filters(frame, vascular=self.filter.get(), gray=self.gray_mode.get(),
\*         clahe_color=self.clahe_color.get(), clahe_l=self.clahe_l.get())
\* Each get() is a call of its own, and the UI thread may run between two.
ArgOrder == <<"vascular", "gray", "clahe_color", "clahe_l">>

ReadFlag ==
  /\ call.fn = "filters"
  /\ call.runs = 0
  /\ Len(call.args) < Len(ArgOrder)
  /\ call' = [call EXCEPT !.args = Append(@, call.flags[ArgOrder[Len(@) + 1]])]
  /\ UNCHANGED restVars

\* The flags filters is called with, once the four were read.
Args == [f \in Flags |-> call.args[CHOOSE k \in 1..Len(ArgOrder) : ArgOrder[k] = f]]

FilterFrame ==
  /\ call.fn = "filters"
  /\ call.runs = 0
  /\ Len(call.args) = Len(ArgOrder)
  /\ call' = [call EXCEPT !.runs = 1,
                          !.given = call.image,
                          !.out = filters(call.image, Args)]
  /\ UNCHANGED restVars

\* ------------------------------------------------------------ resolution_menu
\* The user picks a resolution in the combobox: resolution_var changes, and the
\* <<ComboboxSelected>> handler only prints it.
SelectResolution(c) ==
  /\ resolution_var' = c
  /\ UNCHANGED <<recording, previewing, stream, writer, remaining, start_btn,
                 stop_btn, preview_btn, timers, nStreams, openStreams, ended,
                 nPulled, nWriters, closes, reports, pv, rc, stops, opened,
                 declared, codec, now, output, call>>
  /\ UNCHANGED histVars
  /\ last' = Note(<<"select_resolution", c>>)

\* ------------------------------------------------------------ environment
\* The wall clock moves on by one tick.
Clock ==
  /\ now < MaxClock
  /\ now' = now + 1
  /\ UNCHANGED <<recording, previewing, stream, writer, remaining, start_btn,
                 stop_btn, preview_btn, timers, nStreams, openStreams, ended,
                 nPulled, nWriters, closes, reports, pv, rc, stops,
                 resolution_var, opened, declared, codec, output, call, last>>
  /\ UNCHANGED histVars

\* The capture source runs dry (the camera is unplugged, the device stops):
\* every later read() of the current stream returns None.
SourceEnd ==
  /\ stream # 0
  /\ ~ended
  /\ ended' = TRUE
  /\ UNCHANGED <<recording, previewing, stream, writer, remaining, start_btn,
                 stop_btn, preview_btn, timers, nStreams, openStreams, nPulled,
                 nWriters, closes, reports, pv, rc, stops, last>>
  /\ UNCHANGED sideVars
  /\ UNCHANGED histVars

Running(w) == rc[w].pc \notin {"idle", "done", "dead"}

\* One unit of wall-clock time passes.  rc[w].left is dur - (time.time() -
\* start_time) of record_loop w, kept at 0 once the duration has elapsed.
Tick ==
  /\ \E w \in Sessions : Running(w) /\ rc[w].left > 0
  /\ rc' = [w \in Sessions |->
              IF Running(w) /\ rc[w].left > 0
              THEN [rc[w] EXCEPT !.left = @ - 1]
              ELSE rc[w]]
  /\ UNCHANGED <<appVars, last>>
  /\ UNCHANGED <<nPulled, pv>>
  /\ UNCHANGED histVars

\* ------------------------------------------------------------ history
Log(seq, e, f) ==
  IF f \in Tracked /\ Len(seq) < MaxFrames THEN Append(seq, e) ELSE seq

Pulled(by, t, f) ==
  IF f \in Tracked THEN pulls \cup {[by |-> by, t |-> t, f |-> f]} ELSE pulls

Filtered(f) ==
  IF f \in Tracked THEN [filtered EXCEPT ![f] = Min(@ + 1, 2)] ELSE filtered

\* The frame record_loop w read last, from the history of reads (0: none yet).
LastPulled(w) ==
  LET mine == {p.f : p \in {q \in pulls : q.by = "rc" /\ q.t = w}}
  IN IF mine = {} THEN 0 ELSE CHOOSE f \in mine : \A g \in mine : g <= f

\* ------------------------------------------------------------ preview_loop
\* while self.previewing:
PvCheck(i) ==
  /\ pv[i].pc = "check"
  /\ pv' = [pv EXCEPT ![i].pc = IF previewing THEN "read" ELSE "done"]
  /\ UNCHANGED <<appVars, last>>
  /\ UNCHANGED <<nPulled, rc>>
  /\ UNCHANGED histVars

\* frame = self.stream.read(); if frame is None: break; then the filter stage
\* (if self.gray_mode.get(): ... / frame = filters(frame, ...)), which works on
\* the thread's own frame only
PvRead(i) ==
  /\ pv[i].pc = "read"
  /\ IF stream = 0
     THEN \* AttributeError on None: the thread dies
          /\ pv' = [pv EXCEPT ![i].pc = "dead"]
          /\ UNCHANGED <<nPulled, pulls, filtered>>
     ELSE IF ended
     THEN /\ pv' = [pv EXCEPT ![i].pc = "done"]
          /\ UNCHANGED <<nPulled, pulls, filtered>>
     ELSE \* both: Recording and Previewing were active when the frame was read
          /\ pv' = [pv EXCEPT ![i] = [pc |-> "render", frame |-> FrameAt(nPulled),
                                      both |-> recording /\ previewing]]
          /\ nPulled' = AfterRead(nPulled)
          /\ pulls' = Pulled("pv", 0, FrameAt(nPulled))
          /\ filtered' = Filtered(FrameAt(nPulled))
  /\ UNCHANGED <<appVars, last>>
  /\ UNCHANGED <<rc, tracked, rendered, written>>

  \* self.update_preview(): the frame is drawn on the canvas
PvRender(i) ==
  /\ pv[i].pc = "render"
  /\ rendered' = Log(rendered, pv[i].frame, pv[i].frame)
  /\ pv' = [pv EXCEPT ![i] = [pc |-> "check", frame |-> 0, both |-> FALSE]]
  /\ UNCHANGED <<appVars, last>>
  /\ UNCHANGED <<nPulled, rc, tracked, pulls, filtered, written>>

\* ------------------------------------------------------------ record_loop
\* while self.recording and time.time() - start_time < dur:
\* while self.recording: the duration is never looked at
RcGuardNoTimeout(w) == recording

RcGuard(w) == recording /\ rc[w].left > 0

RcCheck(w) ==
  /\ rc[w].pc = "check"
  /\ rc' = [rc EXCEPT ![w].pc = IF RcGuard(w) THEN "read" ELSE "stop"]
  /\ UNCHANGED <<appVars, last>>
  /\ UNCHANGED <<nPulled, pv>>
  /\ UNCHANGED histVars

\* Where record_loop goes when read() returns None.
\* No test for None: the loop goes on with None and the thread dies on it.
AfterNoneCrash == "dead"

\* if frame is None: break, and self.stop_record() follows the loop
AfterNone == "stop"

\* frame = self.stream.read(); if frame is None: break; then the filter stage
RcRead(w) ==
  /\ rc[w].pc = "read"
  /\ IF stream = 0
     THEN \* AttributeError on None: the thread dies before stop_record
          /\ rc' = [rc EXCEPT ![w] = [pc |-> "dead", frame |-> 0, left |-> 0]]
          /\ UNCHANGED <<nPulled, pulls, filtered>>
     ELSE IF ended
     THEN /\ rc' = [rc EXCEPT ![w].pc = AfterNone]
          /\ UNCHANGED <<nPulled, pulls, filtered>>
     ELSE /\ rc' = [rc EXCEPT ![w].pc = "write", ![w].frame = FrameAt(nPulled)]
          /\ nPulled' = AfterRead(nPulled)
          /\ pulls' = Pulled("rc", w, FrameAt(nPulled))
          /\ filtered' = Filtered(FrameAt(nPulled))
  /\ UNCHANGED <<appVars, last>>
  /\ UNCHANGED <<pv, tracked, rendered, written>>

\* self.writer.write(self.stream.read()): a second read, of a later frame
WrittenFrameReread(w) == FrameAt(nPulled)

\* self.writer.write(frame): frame is the loop's local variable
WrittenFrame(w) == rc[w].frame

RcWrite(w) ==
  /\ rc[w].pc = "write"
  /\ written' = Log(written,
                    [f |-> WrittenFrame(w), last |-> LastPulled(w), w |-> writer],
                    WrittenFrame(w))
  /\ rc' = [rc EXCEPT ![w].pc = "check", ![w].frame = 0]
  /\ UNCHANGED <<appVars, last>>
  /\ UNCHANGED <<nPulled, pv, tracked, pulls, filtered, rendered>>

\* self.stop_record(), up to the button updates
RcStop(w) ==
  /\ rc[w].pc = "stop"
  /\ recording' = FALSE
  /\ start_btn' = TRUE
  /\ stop_btn' = FALSE
  /\ rc' = [rc EXCEPT ![w] = [pc |-> "close", frame |-> 0, left |-> 0]]
  /\ UNCHANGED <<previewing, stream, writer, remaining, preview_btn, timers,
                 nStreams, openStreams, ended, nPulled, nWriters, closes, reports,
                 pv, stops, last>>
  /\ UNCHANGED sideVars
  /\ UNCHANGED histVars

\* self.stop_record(), from the close of the writer on
RcClose(w) ==
  /\ rc[w].pc = "close"
  /\ closes' = CloseWriter
  /\ reports' = Reported
  /\ rc' = [rc EXCEPT ![w].pc = "done"]
  /\ UNCHANGED <<recording, previewing, stream, writer, remaining, start_btn,
                 stop_btn, preview_btn, timers, nStreams, openStreams, ended,
                 nPulled, nWriters, pv, stops, last>>
  /\ UNCHANGED sideVars
  /\ UNCHANGED histVars

Loops ==
  \/ \E i \in Streams : PvCheck(i) \/ PvRead(i) \/ PvRender(i)
  \/ \E w \in Sessions : RcCheck(w) \/ RcRead(w) \/ RcWrite(w) \/ RcStop(w) \/ RcClose(w)

\* ------------------------------------------------------------ specifications
\* The application under every handler and both loops; frames are not told apart.
Next ==
  \/ \E o \in Outcomes : TogglePreview(o)
  \/ \E d \in 0..MaxDur, o \in Outcomes, e \in BOOLEAN : StartRecord(d, o, e)
  \/ StopRecord
  \/ UpdateTimer
  \/ \E r \in BOOLEAN : UpdateResolutionList(r)
  \/ SourceEnd
  \/ Tick
  \/ Loops

Spec == Init /\ [][Next]_vars

\* The same with the frame histories kept.  Left out are the steps that no loop
\* can tell from their absence: the countdown (it moves remaining and timers
\* only) and a resolution refresh that finds nothing (it only disables buttons).
NextFrames ==
  \/ \E o \in Outcomes : TogglePreview(o)
  \/ \E d \in 0..MaxDur, o \in Outcomes, e \in BOOLEAN : StartRecord(d, o, e)
  \/ StopRecord
  \/ UpdateResolutionList(TRUE)
  \/ SourceEnd
  \/ Tick
  \/ Loops

SpecFrames == InitObserved /\ [][NextFrames]_vars

\* One recording session that nothing disturbs: a preview may be toggled before
\* it, the capture source opens and never runs dry, the encoder opens, and no
\* handler runs on the UI thread while the session lasts but the countdown.
NextTimed ==
  \/ nWriters = 0 /\ \E o \in Outcomes : TogglePreview(o)
  \/ nWriters = 0 /\ \E d \in 1..MaxDur : StartRecord(d, "ok", TRUE)
  \/ UpdateTimer
  \/ Tick
  \/ Loops

\* Time passes, and a thread that can run does run.
FairTimed ==
  /\ WF_vars(Tick)
  /\ \A w \in Sessions :
       WF_vars(RcCheck(w) \/ RcRead(w) \/ RcWrite(w) \/ RcStop(w) \/ RcClose(w))

SpecTimed == InitObserved /\ [][NextTimed]_vars /\ FairTimed

\* One recording session on a source that may run dry at any moment, before
\* the session starts or while it lasts; no handler runs during the session.
NextExhausted == NextTimed \/ SourceEnd

SpecExhausted == InitObserved /\ [][NextExhausted]_vars /\ FairTimed

\* One recording session during which the preview button stays in use: the
\* preview, and with it the capture stream, may be stopped under the session.
NextReadFails ==
  \/ \E o \in Outcomes : TogglePreview(o)
  \/ nWriters = 0 /\ \E d \in 1..MaxDur : StartRecord(d, "ok", TRUE)
  \/ UpdateTimer
  \/ Tick
  \/ Loops

SpecReadFails == Init /\ [][NextReadFails]_vars /\ FairTimed

\* The encoder cannot be opened (ffmpeg is missing, the output is not
\* writable): every start_record gets as far as WriteGear and fails there.  The
\* preview button is used to stop a preview only, so a preview that runs has
\* been started by start_record itself.
NextEncoderFails ==
  \/ previewing /\ TogglePreview("ok")
  \/ \E d \in 0..MaxDur, o \in Outcomes : StartRecord(d, o, FALSE)
  \/ \E r \in BOOLEAN : UpdateResolutionList(r)
  \/ SourceEnd
  \/ \E i \in Streams : PvCheck(i) \/ PvRead(i) \/ PvRender(i)

SpecEncoderFails == InitObserved /\ [][NextEncoderFails]_vars

\* The preview alone, with the last handler call kept: the preview button, the
\* resolution refresh, the preview loops and a source that may run dry.
NextPreview ==
  \/ \E o \in Outcomes : TogglePreview(o)
  \/ \E r \in BOOLEAN : UpdateResolutionList(r)
  \/ SourceEnd
  \/ \E i \in Streams : PvCheck(i) \/ PvRead(i) \/ PvRender(i)

SpecPreview == InitWatched /\ [][NextPreview]_vars

\* Recording with the resolution combobox in use: the capabilities of the
\* device are told apart.  The source opens and does not run dry, the encoder
\* opens.
NextCapability ==
  \/ \E c \in Caps : SelectResolution(c)
  \/ TogglePreview("ok")
  \/ \E d \in 1..MaxDur : StartRecord(d, "ok", TRUE)
  \/ StopRecord
  \/ UpdateResolutionList(TRUE)
  \/ Tick
  \/ Loops

SpecCapability == Init /\ [][NextCapability]_vars

\* The preview with stop_preview also called directly, in any state.
NextStopPreview ==
  \/ \E o \in Outcomes : TogglePreview(o)
  \/ StopPreview
  \/ SourceEnd
  \/ \E i \in Streams : PvCheck(i) \/ PvRead(i) \/ PvRender(i)

SpecStopPreview == InitWatched /\ [][NextStopPreview]_vars

\* The preview with a render that may stall: the loop's own steps, the test of
\* the flag and the read, are taken when they can be; drawing on the canvas
\* goes through the UI thread and may take any time, or never return.
FairPull == \A i \in Streams : WF_vars(PvCheck(i) \/ PvRead(i))

SpecPreviewStall == InitWatched /\ [][NextPreview]_vars /\ FairPull

\* The calls of select_codec in one process, whatever ffmpeg answers each time.
NextCodec == \E listed, smoke \in BOOLEAN : SelectCodec(listed, smoke)

SpecCodec == InitProcess /\ [][NextCodec]_vars

\* One call of select_codec in every environment.
InitSelectCodec ==
  \E e \in CodecEnvs :
    InitCall([fn |-> "select_codec", env |-> e, ran |-> << >>, out |-> "none"])

SpecSelectCodec == InitSelectCodec /\ [][CodecList \/ CodecSmoke]_vars

\* The options of start_record for every codec select_codec can return and
\* every position of the quality slider.
InitOptions ==
  \E c \in {preferred_codec, fallback_codec}, q \in 0..QualityTo :
    InitCall([fn |-> "options", env |-> [codec |-> c, quality |-> q],
              done |-> FALSE, out |-> << >>])

SpecOptions == InitOptions /\ [][BuildOptions]_vars

\* detect_devices on every answer of the backend up to MaxLines lines.
InitDetect ==
  \E ok \in BOOLEAN, lines \in SeqsUpTo(DeviceLines, MaxLines) :
    InitCall([fn |-> "detect_devices", env |-> [ok |-> ok, lines |-> lines],
              done |-> FALSE, out |-> << >>])

SpecDetect == InitDetect /\ [][DetectDevices]_vars

\* get_supported_resolutions on every listing up to MaxLines lines.
InitResolutions ==
  \E inRange \in BOOLEAN, ran \in BOOLEAN, lines \in SeqsUpTo(OptionLines, MaxLines) :
    InitCall([fn |-> "get_supported_resolutions",
              env |-> [inRange |-> inRange, ran |-> ran, lines |-> lines],
              done |-> FALSE, out |-> Unsupported])

SpecResolutions == InitResolutions /\ [][GetSupportedResolutions]_vars

\* The filter chain on a frame read from the camera, after every sequence of
\* up to MaxToggles clicks on the four filter check boxes, which start off.
InitFilters ==
  \E raw \in Raws :
    LET frame == [raw |-> raw, stages |-> << >>, holder |-> "ndarray"]
    IN InitCall([fn |-> "filters", flags |-> [f \in Flags |-> FALSE],
                 toggles |-> << >>, image |-> frame, runs |-> 0,
                 given |-> frame, out |-> frame])

SpecFilters == InitFilters /\ [][(\E f \in Flags : ToggleFlag(f)) \/ Filters]_vars

\* The canvas of start_preview for every capture size up to MaxSide a side.
InitCanvas ==
  \E w \in 1..MaxSide, h \in 1..MaxSide :
    InitCall([fn |-> "canvas", env |-> [w |-> w, h |-> h],
              done |-> FALSE, width |-> 0, height |-> 0])

SpecCanvas == InitCanvas /\ [][ConfigCanvas]_vars

\* One turn of a loop on one frame, flag by flag, while the check boxes are
\* clicked up to MaxToggles times.
InitFilterLoop ==
  \E raw \in Raws :
    LET frame == [raw |-> raw, stages |-> << >>, holder |-> "ndarray"]
    IN InitCall([fn |-> "filters", flags |-> [f \in Flags |-> FALSE],
                 toggles |-> << >>, image |-> frame, runs |-> 0,
                 given |-> frame, out |-> frame, args |-> << >>])

SpecFilterLoop ==
  InitFilterLoop /\ [][(\E f \in Flags : ToggleFlag(f)) \/ ReadFlag \/ FilterFrame]_vars

\* Recording sessions one after the other on a source that opens and never
\* runs dry, with an encoder that opens: the start and stop buttons, the
\* countdown and the loops.  Time passes, every thread that can run does run,
\* and the user presses stop whenever the stop button stays enabled.
NextBackToBack ==
  \/ \E d \in 1..MaxDur : StartRecord(d, "ok", TRUE)
  \/ StopRecord
  \/ UpdateTimer
  \/ Tick
  \/ Loops

SpecBackToBack ==
  Init /\ [][NextBackToBack]_vars /\ FairTimed /\ WF_vars(StopRecord)

\* start_record on any parameters, with the last handler call kept: the
\* preview button, one session at most that gets started, the stop button and
\* the loops.
NextParameters ==
  \/ TogglePreview("ok")
  \/ \E p \in Parameters, o \in Outcomes, e \in BOOLEAN :
       /\ ParametersValid(p) => nWriters = 0
       /\ StartRecordWith(p, o, e)
  \/ StopRecord
  \/ Loops

SpecParameters == InitWatched /\ [][NextParameters]_vars

\* The application until its window is closed, with the last handler call
\* kept: no handler and no countdown callback runs once on_close has destroyed
\* the window; the loop threads are daemon threads and run on until the
\* process is gone.
NextClose ==
  \/ /\ last # <<"on_close">>
     /\ \/ TogglePreview("ok")
        \/ \E d \in 1..MaxDur : StartRecord(d, "ok", TRUE)
        \/ StopRecord
        \/ UpdateTimer
        \/ OnClose
  \/ Tick
  \/ Loops

SpecClose == InitWatched /\ [][NextClose]_vars

\* Recording sessions started and stopped by the user while the wall clock
\* runs: the start and stop buttons, the clock and the loops.
NextOutputs ==
  \/ \E d \in 1..MaxDur : StartRecord(d, "ok", TRUE)
  \/ StopRecord
  \/ Clock
  \/ Loops

SpecOutputs == Init /\ [][NextOutputs]_vars

\* ------------------------------------------------------------ claims
InLoop(w) == rc[w].pc \in {"read", "write"}

WrittenFrames == {written[k].f : k \in 1..Len(written)}

\* C1: over every interleaving of a user cancellation, the duration timeout and
\* source exhaustion, the writer of each session is closed exactly once (never
\* twice, and once when its record loop has ended) and the "recording stopped"
\* report is shown once per session.
C1_ClosedAndReportedOnce ==
  /\ \A w \in Sessions : closes[w] <= 1
  /\ \A w \in Sessions : rc[w].pc = "done" => closes[w] = 1
  /\ reports <= nWriters

\* C2: a start_record issued while recording is true is rejected: it opens no
\* writer, starts no record loop, and leaves recording, writer and remaining as
\* they are.
C2_BeginWhileRecordingRejected ==
  [][(recording /\ \E d \in 0..MaxDur, o \in Outcomes, e \in BOOLEAN : StartRecord(d, o, e))
       => UNCHANGED <<recording, writer, remaining, nWriters, rc>>]_vars

\* C3: at most one record_loop thread is inside its consumption loop.
C3_OneRecordLoop == Cardinality({w \in Sessions : InLoop(w)}) <= 1

\* C4: at most one capture source is open: start_preview never opens a stream
\* while an earlier one has not been stopped.
C4_OneCaptureSource == Cardinality(openStreams) <= 1

\* a second stream, opened by start_record itself after the first was stopped
C4_Witness == nStreams = 2 /\ openStreams = {2} /\ recording

\* C5: recording implies previewing and an open capture stream.
C5_RecordingImpliesPreviewing == recording => (previewing /\ stream # 0)

\* C6: a frame read while Recording and Previewing are both active goes to both
\* sinks: when the preview loop draws such a frame, the frame has been written
\* to the encoder or a record loop holds it to write it.
C6_FanOut ==
  [][\A i \in Streams :
       (pv[i].pc = "render" /\ pv'[i].pc = "check" /\ pv[i].both
          /\ pv[i].frame \in Tracked)
       => (pv[i].frame \in WrittenFrames \/ \E w \in Sessions : rc[w].frame = pv[i].frame)]_vars

C8_SinkOrder ==
  /\ \A j, k \in 1..Len(rendered) : j < k => rendered[j] < rendered[k]
  /\ \A j, k \in 1..Len(written) :
       (j < k /\ written[j].w = written[k].w) => written[j].f < written[k].f

\* C9: the frame record_loop passes to writer.write is the frame it read in the
\* same iteration, the last one it read.
C9_WritesOwnFrame == \A k \in 1..Len(written) : written[k].f = written[k].last

\* a record loop wrote its second frame after the preview loop read one too
C9_Witness ==
  /\ \E k \in 1..Len(written) : written[k].f = 2
  /\ \E p \in pulls : p.by = "pv"

\* C10: a session of duration d on a source that never runs dry terminates: no
\* iteration starts once the duration has elapsed, the record loop ends, and
\* the writer is closed exactly once.
C10_TimedSessionEnds ==
  /\ [][\A w \in Sessions :
          (rc[w].pc = "check" /\ rc'[w].pc = "read") => rc[w].left > 0]_vars
  /\ \A w \in Sessions : (rc[w].pc = "check") ~> (rc[w].pc = "done")
  /\ [](\A w \in Sessions : closes[w] <= 1)
  /\ [](\A w \in Sessions : rc[w].pc = "done" => (closes[w] = 1 /\ ~recording))

\* the session ran out of time after writing a frame, and its writer is closed
C10_Witness ==
  /\ rc[1].pc = "done" /\ closes[1] = 1
  /\ \E k \in 1..Len(written) : written[k].w = 1

\* record_loop w has read no frame yet, and every read so far is on record
NothingRead(w) == LastPulled(w) = 0 /\ nPulled < tracked

NothingWritten(w) == \A k \in 1..Len(written) : written[k].w # w

\* C11: a session whose first read() returns None ends without error: its
\* thread reaches the end of stop_record, it has written no frame, its writer
\* is closed and recording is false.
C11_ExhaustedSessionEnds ==
  \A w \in Sessions :
    (rc[w].pc = "read" /\ ended /\ NothingRead(w))
      ~> (rc[w].pc = "done" /\ closes[w] = 1 /\ ~recording /\ NothingWritten(w))

\* the first read returned None: the loop is left by break with time to spare
C11_Witness ==
  \E w \in Sessions :
    rc[w].pc = "stop" /\ ended /\ rc[w].left > 0 /\ recording /\ NothingRead(w)

\* C12: when a read fails during a recording (the stream was set to None by
\* stop_preview, so the read raises), the session ends: the writer gets closed
\* and recording becomes false.
C12_ReadFailureEndsSession ==
  \A w \in Sessions : (rc[w].pc = "dead") ~> (~recording /\ closes[w] >= 1)

\* C13: when WriteGear fails in start_record, the session does not become
\* Recording: recording stays false, no writer is kept, no record loop and no
\* countdown is started; a preview that runs goes on with its stream, and one
\* that start_record has just started itself is left running.
C13_EncoderFailureStaysIdle ==
  [][\A d \in 0..MaxDur, o \in Outcomes :
       (~recording /\ StartRecord(d, o, FALSE))
       => /\ ~recording' /\ writer' = writer /\ nWriters' = nWriters
          /\ rc' = rc /\ timers' = timers /\ remaining' = remaining
          /\ previewing => (previewing' /\ stream' = stream /\ pv' = pv)
          /\ (~previewing /\ previewing')
               => (stream' # 0 /\ stream' \in openStreams' /\ pv'[stream'].pc = "check")]_vars

\* start_record has opened its second preview and failed at the encoder again
C13_Witness ==
  /\ nStreams = 2 /\ previewing /\ stream = 2 /\ pv[2].pc # "idle"
  /\ ~recording /\ nWriters = 0 /\ timers = 0

C15_FailedImplicitStartRefused ==
  [][\A d \in 0..MaxDur, e \in BOOLEAN :
       (~previewing /\ ~recording /\ StartRecord(d, "notfound", e))
       => (~recording' /\ writer' = writer /\ nWriters' = nWriters /\ rc' = rc)]_vars

\* C16: while a recording is active, the open capture source was opened at the
\* capability (width, height, frame rate) that the job declared to its encoder.
C16_SourceMatchesJob ==
  (recording /\ stream # 0 /\ writer # 0) => opened[stream] = declared[writer]

\* C17: stop_preview is idempotent and releases the capture source: after it
\* previewing is false and stream is None, a second call in a row changes
\* nothing, and stop() is called exactly once on every stream that was opened
\* and is no longer held, never twice on any.
C17_StopPreviewIdempotent ==
  /\ [][StopPreview
         => /\ ~previewing' /\ stream' = 0 /\ openStreams' = {}
            /\ last[1] = "stop_preview"
                 => UNCHANGED <<previewing, stream, nStreams, openStreams, stops, pv>>]_vars
  /\ [](\A i \in Streams :
          /\ stops[i] <= 1
          /\ (i <= nStreams /\ i # stream) => stops[i] = 1
          /\ i = stream => stops[i] = 0)

\* stop_preview was called again with the preview already stopped
C17_Witness ==
  /\ last = <<"stop_preview", FALSE>>
  /\ nStreams = 1 /\ stream = 0 /\ ~previewing /\ stops[1] = 1

\* No record_loop thread has come to its stop_record: every stop_record so far
\* ran on the UI thread, flag and close in one step.
NoLoopStopped == \A v \in Sessions : rc[v].pc \notin {"stop", "close", "done"}

\* C18: once the recording flag has been set to false on a session (its writer
\* was closed by a stop_record), the record loop of that session leaves the
\* loop at its next test of the flag: it issues no further read.
C18_CancelObserved ==
  [][\A w \in Sessions :
       (rc[w].pc = "check" /\ closes[w] >= 1 /\ NoLoopStopped)
       => rc'[w].pc # "read"]_vars

\* C19: the preview render never blocks frame acquisition: a preview loop that
\* holds a frame to draw gets on to its next test and read whether or not the
\* drawing completes.
C19_RenderNeverBlocksPull ==
  \A i \in Streams : (pv[i].pc = "render") ~> (pv[i].pc # "render")

\* C20: select_codec is memoized in the process: every call returns what the
\* first call returned, and the encoder listing and the smoke test run at most
\* once.
C20_CodecMemoized ==
  /\ codec.listings <= 1
  /\ codec.smokes <= 1
  /\ \A k \in 1..Len(codec.returned) : codec.returned[k] = codec.returned[1]

CodecReturned == call.fn = "select_codec" /\ call.out # "none"

\* C21 as stated: select_codec returns h264_qsv or libx264 and never raises,
\* and it returns h264_qsv exactly when the preferred encoder is listed, the
\* smoke encode succeeds and its output file exists and is not empty.
C21_CodecTotal ==
  CodecReturned
  => /\ call.out \in {preferred_codec, fallback_codec}
     /\ call.out = preferred_codec
          <=> (Listed(call.env) /\ call.env.smoke = "ok" /\ call.env.file = "nonempty")

\* C21 amended: select_codec returns h264_qsv or libx264 and never raises, every
\* call returns, and it returns h264_qsv exactly when the preferred encoder is
\* listed, the smoke encode succeeds, its output file exists and is not empty,
\* and that file could be removed.
C21_CodecTotalAmended ==
  /\ CodecReturned
     => /\ call.out \in {preferred_codec, fallback_codec}
        /\ call.out = preferred_codec <=> (Listed(call.env) /\ SmokePassed(call.env))
        /\ call.out = select_codec(Listed(call.env), SmokePassed(call.env))
  /\ (call.fn = "select_codec" /\ call.ran = <<"list", "smoke">>) => CodecReturned
  /\ (call.fn = "select_codec" /\ call.ran = <<"list">> /\ ~Listed(call.env))
       => CodecReturned

\* the hardware codec is returned after both probes
C21_Witness ==
  CodecReturned /\ call.out = preferred_codec /\ call.ran = <<"list", "smoke">>

\* C22: when the preferred encoder is not in the listing, or the listing fails,
\* select_codec returns the fallback at once: the smoke test runs only after a
\* listing that succeeded and names the preferred encoder.
C22_SmokeAfterListing ==
  call.fn = "select_codec"
  => /\ (call.ran = <<"list", "smoke">>)
          => (call.env.path = "found" /\ call.env.listing = "present")
     /\ (call.ran # << >> /\ ~(call.env.path = "found" /\ call.env.listing = "present"))
          => (call.ran = <<"list">> /\ call.out = fallback_codec)

\* the listing ran, does not name h264_qsv, and the fallback is returned
C22_Witness ==
  /\ call.fn = "select_codec" /\ call.env.path = "found" /\ call.env.listing = "absent"
  /\ call.ran = <<"list">> /\ call.out = fallback_codec

\* C23: the options start_record builds hold exactly one quality parameter,
\* chosen by the codec: -global_quality and not -crf for h264_qsv, -crf and not
\* -global_quality for libx264, with the slider's value; for the same value the
\* other codec gets a parameter of another name.
C23_OneQualityParameter ==
  (call.fn = "options" /\ call.done)
  => LET mine == DOMAIN call.out \cap QualityNames
     IN /\ Cardinality(mine) = 1
        /\ call.env.codec = "h264_qsv" => mine = {"-global_quality"}
        /\ call.env.codec = "libx264" => mine = {"-crf"}
        /\ \A n \in mine : call.out[n] = <<"str", call.env.quality>>
        /\ \A c \in {preferred_codec, fallback_codec} \ {call.env.codec} :
             DOMAIN options(c, call.env.quality) \cap mine = {}

\* the options for h264_qsv at quality 1
C23_Witness ==
  /\ call.fn = "options" /\ call.done
  /\ call.env = [codec |-> "h264_qsv", quality |-> 1]
  /\ "-global_quality" \in DOMAIN call.out

\* C24: detect_devices never returns an empty list: it returns the one
\* placeholder when the query fails and when the query lists no video device,
\* and the names of the video devices, in order, otherwise.
C24_DevicesNeverEmpty ==
  (call.fn = "detect_devices" /\ call.done)
  => LET lines == call.env.lines
         video == {i \in 1..Len(lines) : lines[i].video /\ lines[i].quoted}
     IN /\ call.out # << >>
        /\ ~call.env.ok => call.out = <<"Default Camera">>
        /\ (call.env.ok /\ video = {}) => call.out = <<"Default Camera">>
        /\ (call.env.ok /\ video # {})
             => /\ Len(call.out) = Cardinality(video)
                /\ \A k \in 1..Len(call.out) :
                     \E i \in video : /\ call.out[k] = lines[i].name
                                       /\ Cardinality({j \in video : j < i}) = k - 1

\* the query succeeded, listed lines, and none of them is a video device
C24_Witness ==
  /\ call.fn = "detect_devices" /\ call.done /\ call.env.ok
  /\ Len(call.env.lines) = 2 /\ \A i \in 1..2 : ~call.env.lines[i].video
  /\ call.out = <<"Default Camera">>

\* C25: get_supported_resolutions returns the empty list, and does not raise,
\* when no line of the listing holds vcodec=mjpeg; it never raises; lines that
\* do not match the pattern are skipped and every matching motion-JPEG line
\* gives its (W, H, F), in the order of the listing.
C25_ResolutionsParsed ==
  (call.fn = "get_supported_resolutions" /\ call.done)
  => LET lines == call.env.lines
         hits == {i \in 1..Len(lines) :
                    lines[i].mjpeg /\ lines[i].fps /\ lines[i].max # << >>}
     IN /\ ~call.out.raised
        /\ (\A i \in 1..Len(lines) : ~lines[i].mjpeg) => call.out.value = << >>
        /\ (call.env.inRange /\ call.env.ran)
             => /\ Len(call.out.value) = Cardinality(hits)
                /\ \A k \in 1..Len(call.out.value) :
                     \E i \in hits : /\ call.out.value[k] = lines[i].max
                                      /\ Cardinality({j \in hits : j < i}) = k - 1

\* a listing of a line that does not match and a motion-JPEG line that does
C25_Witness ==
  /\ call.fn = "get_supported_resolutions" /\ call.done
  /\ call.env.inRange /\ call.env.ran /\ Len(call.env.lines) = 2
  /\ call.env.lines[1].mjpeg /\ call.env.lines[1].max = << >>
  /\ call.out.value = <<call.env.lines[2].max>>

\* C26: every (width, height, fps) that get_supported_resolutions returns has
\* width > 0, height > 0 and fps > 0.
C26_ResolutionsPositive ==
  (call.fn = "get_supported_resolutions" /\ call.done)
  => \A k \in 1..Len(call.out.value) :
       call.out.value[k][1] > 0 /\ call.out.value[k][2] > 0 /\ call.out.value[k][3] > 0

\* C27: the stages the chain applies to a frame are exactly the enabled ones,
\* each once, in the order vessel enhancement, color CLAHE, luminance CLAHE,
\* grayscale, whatever the order in which the flags were toggled.
C27_FixedStageOrder ==
  (call.fn = "filters" /\ call.runs = 1)
  => LET rank == [f \in Flags |-> CASE f = "vascular" -> 1 [] f = "clahe_color" -> 2
                                   [] f = "clahe_l" -> 3 [] f = "gray" -> 4]
         applied == call.out.stages
     IN /\ {applied[i] : i \in 1..Len(applied)} = {f \in Flags : call.flags[f]}
        /\ \A i, j \in 1..Len(applied) : i < j => rank[applied[i]] < rank[applied[j]]

\* grayscale was switched on before color CLAHE, and color CLAHE ran first
C27_Witness ==
  /\ call.fn = "filters" /\ call.runs = 1
  /\ call.toggles = <<"gray", "clahe_color">>
  /\ call.out.stages = <<"clahe_color", "gray">>

C29_CanvasAspectExact ==
  (call.fn = "canvas" /\ call.done)
  => call.width * call.env.h = call.height * call.env.w

\* C29, amended: the canvas is PREVIEW_WIDTH wide and its height is the exact
\* height cut down to whole pixels, so canvas_width * height exceeds
\* canvas_height * width by at least 0 and at most width.
C29_CanvasAspectTruncated ==
  (call.fn = "canvas" /\ call.done)
  => /\ call.width = 1280
     /\ call.width * call.env.h - call.height * call.env.w >= 0
     /\ call.width * call.env.h - call.height * call.env.w <= call.env.w

\* a size whose exact canvas height is not a whole number of pixels
C29_Witness ==
  /\ call.fn = "canvas" /\ call.done
  /\ call.env.w = 3 /\ call.env.h = 1
  /\ call.height = 426

\* C30: at most one countdown callback is pending at any time.
C30_OneCountdownPending == timers <= 1

\* C33: record_loop never calls writer.write on a writer that has been closed.
C33_NoWriteAfterClose ==
  [][\A w \in Sessions :
       (rc[w].pc = "write" /\ rc'[w].pc = "check")
       => (writer # 0 /\ closes[writer] = 0)]_vars

\* C35: no loop calls stream.read() while self.stream is None (a thread that
\* does so dies on the AttributeError).
C35_NoReadOnReleasedStream ==
  /\ \A i \in Streams : pv[i].pc # "dead"
  /\ \A w \in Sessions : rc[w].pc # "dead"

\* C36: a preview_loop thread reads only from the stream it was started with:
\* the thread of an earlier preview never pulls from a stream opened later.
C36_OnePreviewLoopPerStream ==
  [][\A i \in Streams :
       (pv[i].pc = "read" /\ pv'[i].pc = "render") => stream = i]_vars

\* C37: while previewing is true and a stream is held, a preview_loop thread is
\* in its loop.
C37_PreviewingHasLoop ==
  (previewing /\ stream # 0)
  => \E i \in Streams : pv[i].pc \in {"check", "read", "render"}

\* C31: the flags a frame is filtered with are the configuration that held at
\* one instant: one of the configurations the check boxes went through.
C31_FlagsAreOneSnapshot ==
  (call.fn = "filters" /\ call.runs = 1)
  => LET clicks(f, k) == Cardinality({j \in 1..k : call.toggles[j] = f})
         held(k) == [f \in Flags |-> clicks(f, k) % 2 = 1]
     IN Args \in {held(k) : k \in 0..Len(call.toggles)}

\* C34: every encoder writer that start_record opened is closed in the end.
C34_WriterEventuallyClosed ==
  \A w \in Sessions : (nWriters >= w) ~> (closes[w] >= 1)

\* C38: a start_record whose width, height, fps or duration is not positive, or
\* whose duration cannot be read, is rejected and changes nothing: recording,
\* previewing, stream, writer and remaining stay as they are, no capture
\* source and no encoder is opened, no thread and no countdown is started.
C38_InvalidParametersRejected ==
  [][(/\ last' # last
      /\ last'[1] = "start_record"
      /\ \/ ~last'[3].readable
         \/ last'[3].w <= 0 \/ last'[3].h <= 0 \/ last'[3].f <= 0
         \/ last'[3].dur <= 0)
     => /\ last'[2] = "rejected"
        /\ UNCHANGED <<recording, previewing, stream, writer, remaining, nStreams,
                       openStreams, nWriters, timers, pv, rc>>]_vars

\* a start_record with width 0 was rejected while a preview was running
C38_Witness ==
  /\ last[1] = "start_record" /\ last[2] = "rejected"
  /\ last[3].w = 0 /\ last[3].readable /\ last[3].dur > 0
  /\ previewing /\ stream # 0 /\ ~recording /\ writer = 0 /\ timers = 0

\* C39: when on_close returns, recording and previewing are false, stream is
\* None and the writer of the session has been closed; and from then on no
\* loop thread writes a frame or reads one.
C39_ClosedSystemIsStopped ==
  [][/\ last' = <<"on_close">>
        => /\ ~recording' /\ ~previewing' /\ stream' = 0
           /\ writer' # 0 => closes'[writer'] >= 1
     /\ last = <<"on_close">>
        => /\ \A w \in Sessions :
                /\ ~(rc[w].pc = "write" /\ rc'[w].pc = "check")
                /\ ~(rc[w].pc = "read" /\ rc'[w].pc = "write")
           /\ \A i \in Streams : ~(pv[i].pc = "read" /\ pv'[i].pc = "render")]_vars

\* C32: any two recording sessions of one run are given distinct output paths.
C32_DistinctOutputPaths ==
  \A v, w \in 1..nWriters : v # w => output[v] # output[w]

====
